---------------------------- MODULE Spec2Model ----------------------------
(***************************************************************************)
(* A model of energy_analyzer.py: the prompt loops (ask_int, ask_float),   *)
(* collect_devices, summary_and_report and main.                           *)
(*                                                                         *)
(* Text is modelled by TLA+ strings.  Three characters of the program's    *)
(* output are outside the character set of TLA+ strings and are written as *)
(* ">=" and "<=" (the comparison signs of the range diagnostics) and "~"   *)
(* (the ellipsis appended by pad).  Each stands for ONE character of the   *)
(* program's text wherever lengths are counted.                            *)
(*                                                                         *)
(* A Python float is modelled by a decimal number m / 10^e with an         *)
(* unbounded digit sequence m, or by one of the special values nan, inf    *)
(* and -inf.  Arithmetic on the finite values is exact, so the binary      *)
(* rounding error of a double (the "small epsilon" of the specification)   *)
(* is outside the model.                                                   *)
(***************************************************************************)
EXTENDS Integers, Sequences, FiniteSets, TLC

(***************************************************************************)
(* Characters and strings                                                  *)
(***************************************************************************)
Char(s, k) == SubSeq(s, k, k)

DigitChars == <<"0", "1", "2", "3", "4", "5", "6", "7", "8", "9">>

IsDigit(c) == \E k \in 1..10 : DigitChars[k] = c

DigitVal(c) == (CHOOSE k \in 1..10 : DigitChars[k] = c) - 1

AllDigits(s) == \A k \in 1..Len(s) : IsDigit(Char(s, k))

RECURSIVE LStrip(_)
LStrip(s) == IF Len(s) > 0 /\ Char(s, 1) = " " THEN LStrip(SubSeq(s, 2, Len(s))) ELSE s

RECURSIVE RStrip(_)
RStrip(s) == IF Len(s) > 0 /\ Char(s, Len(s)) = " " THEN RStrip(SubSeq(s, 1, Len(s) - 1)) ELSE s

\* str.strip()
Strip(s) == RStrip(LStrip(s))

RECURSIVE Spaces(_)
Spaces(k) == IF k <= 0 THEN "" ELSE " " \o Spaces(k - 1)

\* str.ljust(width) and the right alignment of a format spec such as {x:7d}
LJust(t, width) == t \o Spaces(width - Len(t))
RJust(t, width) == Spaces(width - Len(t)) \o t

(***************************************************************************)
(* Natural numbers of any size: digit sequences, most significant digit    *)
(* first, without leading zeros (<<>> is zero).                            *)
(***************************************************************************)
Front(a) == SubSeq(a, 1, Len(a) - 1)
Last(a) == a[Len(a)]

RECURSIVE Zeros(_)
Zeros(k) == IF k <= 0 THEN <<>> ELSE <<0>> \o Zeros(k - 1)

RECURSIVE NTrim(_)
NTrim(a) == IF Len(a) > 0 /\ a[1] = 0 THEN NTrim(Tail(a)) ELSE a

RECURSIVE NAddC(_, _, _)
NAddC(a, b, c) ==
    IF a = <<>> THEN (IF c = 0 THEN <<>> ELSE <<c>>)
    ELSE LET t == Last(a) + Last(b) + c
         IN  Append(NAddC(Front(a), Front(b), t \div 10), t % 10)

NAdd(a, b) ==
    LET w == IF Len(a) > Len(b) THEN Len(a) ELSE Len(b)
    IN  NTrim(NAddC(Zeros(w - Len(a)) \o a, Zeros(w - Len(b)) \o b, 0))

RECURSIVE NMulDigitC(_, _, _)
NMulDigitC(a, d, c) ==
    IF a = <<>> THEN (IF c = 0 THEN <<>> ELSE <<c>>)
    ELSE LET t == Last(a) * d + c
         IN  Append(NMulDigitC(Front(a), d, t \div 10), t % 10)

RECURSIVE NMul(_, _)
NMul(a, b) ==
    IF b = <<>> \/ a = <<>> THEN <<>>
    ELSE NAdd(NTrim(NMul(a, Front(b)) \o <<0>>), NTrim(NMulDigitC(a, Last(b), 0)))

RECURSIVE NLexLess(_, _)
NLexLess(a, b) ==
    IF a = <<>> THEN FALSE
    ELSE IF a[1] # b[1] THEN a[1] < b[1]
    ELSE NLexLess(Tail(a), Tail(b))

NLess(a, b) ==
    IF Len(a) # Len(b) THEN Len(a) < Len(b) ELSE NLexLess(a, b)

RECURSIVE NFromInt(_)
NFromInt(k) == IF k <= 0 THEN <<>> ELSE Append(NFromInt(k \div 10), k % 10)

RECURSIVE NStr(_)
NStr(a) == IF a = <<>> THEN "" ELSE NStr(Front(a)) \o DigitChars[Last(a) + 1]

\* the decimal text of a natural number
NText(a) == IF a = <<>> THEN "0" ELSE NStr(a)

RECURSIVE NFromStr(_)
NFromStr(s) == IF s = "" THEN <<>>
               ELSE Append(NFromStr(SubSeq(s, 1, Len(s) - 1)), DigitVal(Char(s, Len(s))))

(***************************************************************************)
(* Floats                                                                  *)
(***************************************************************************)
RECURSIVE FNorm(_, _, _)
FNorm(neg, m, e) ==
    IF m = <<>> THEN [k |-> "fin", neg |-> FALSE, m |-> <<>>, e |-> 0]
    ELSE IF e > 0 /\ Last(m) = 0 THEN FNorm(neg, Front(m), e - 1)
    ELSE [k |-> "fin", neg |-> neg, m |-> m, e |-> e]

NaN == [k |-> "nan", neg |-> FALSE, m |-> <<>>, e |-> 0]
Inf == [k |-> "inf", neg |-> FALSE, m |-> <<>>, e |-> 0]
NegInf == [k |-> "inf", neg |-> TRUE, m |-> <<>>, e |-> 0]

\* float(k) of a Python int k
FInt(k) == IF k < 0 THEN FNorm(TRUE, NFromInt(-k), 0) ELSE FNorm(FALSE, NFromInt(k), 0)

IsZero(a) == a.k = "fin" /\ a.m = <<>>

\* the digits of a finite value at e decimal places
Scaled(a, e) == NTrim(a.m \o Zeros(e - a.e))

MaxOf(x, y) == IF x > y THEN x ELSE y

\* a < b on floats: every comparison with nan is False
FLt(a, b) ==
    IF a.k = "nan" \/ b.k = "nan" THEN FALSE
    ELSE IF a.k = "inf" THEN a.neg /\ ~(b.k = "inf" /\ b.neg)
    ELSE IF b.k = "inf" THEN ~b.neg
    ELSE LET e == MaxOf(a.e, b.e)
             x == Scaled(a, e)
             y == Scaled(b, e)
         IN  IF a.neg /\ ~b.neg THEN TRUE
             ELSE IF ~a.neg /\ b.neg THEN FALSE
             ELSE IF a.neg THEN NLess(y, x)
             ELSE NLess(x, y)

FGt(a, b) == FLt(b, a)

\* a >= b on floats (False when either is nan)
FGe(a, b) == a.k # "nan" /\ b.k # "nan" /\ ~FLt(a, b)
FLe(a, b) == FGe(b, a)

\* a * b
FMul(a, b) ==
    IF a.k = "nan" \/ b.k = "nan" THEN NaN
    ELSE IF a.k = "inf" \/ b.k = "inf"
         THEN IF IsZero(a) \/ IsZero(b) THEN NaN
              ELSE IF a.neg # b.neg THEN NegInf ELSE Inf
    ELSE FNorm(a.neg # b.neg, NMul(a.m, b.m), a.e + b.e)

\* a + b; the program only ever adds values that are not negative
FAdd(a, b) ==
    IF a.k = "nan" \/ b.k = "nan" THEN NaN
    ELSE IF a.k = "inf" \/ b.k = "inf"
         THEN IF a.k = "inf" /\ b.k = "inf" /\ a.neg # b.neg THEN NaN
              ELSE IF a.k = "inf" THEN a ELSE b
    ELSE LET e == MaxOf(a.e, b.e)
         IN  FNorm(FALSE, NAdd(Scaled(a, e), Scaled(b, e)), e)

\* a / 1000.0
FDiv1000(a) == IF a.k = "fin" THEN FNorm(a.neg, a.m, a.e + 3) ELSE a

(***************************************************************************)
(* int(s) and float(s).  The grammar covered is an optional sign followed  *)
(* by digits (int), or by digits with at most one decimal point or one of  *)
(* the special words (float).  Python also reads digit-group underscores   *)
(* and, for floats, exponents; no line the model types uses them.  The     *)
(* special words are matched in Python without regard to case; the         *)
(* spellings listed are the ones matched here.                             *)
(***************************************************************************)
HasSign(s) == Len(s) > 0 /\ Char(s, 1) \in {"+", "-"}
IsNegText(s) == Len(s) > 0 /\ Char(s, 1) = "-"
Unsigned(s) == IF HasSign(s) THEN SubSeq(s, 2, Len(s)) ELSE s

NanWords == {"nan", "NaN", "NAN"}
InfWords == {"inf", "Inf", "INF", "infinity", "Infinity", "INFINITY"}

\* int(s) raises ValueError exactly when this is FALSE
IsIntText(s) == LET b == Unsigned(Strip(s)) IN Len(b) > 0 /\ AllDigits(b)

RECURSIVE DigitsValue(_)
DigitsValue(s) == IF s = "" THEN 0
                  ELSE 10 * DigitsValue(SubSeq(s, 1, Len(s) - 1)) + DigitVal(Char(s, Len(s)))

IntValue(s) == LET t == Strip(s)
               IN  IF IsNegText(t) THEN 0 - DigitsValue(Unsigned(t)) ELSE DigitsValue(Unsigned(t))

DotsOf(b) == {k \in 1..Len(b) : Char(b, k) = "."}

IsDecimalText(b) ==
    /\ Cardinality(DotsOf(b)) <= 1
    /\ \A k \in 1..Len(b) : Char(b, k) = "." \/ IsDigit(Char(b, k))
    /\ \E k \in 1..Len(b) : IsDigit(Char(b, k))

\* float(s) raises ValueError exactly when this is FALSE
IsFloatText(s) == LET b == Unsigned(Strip(s))
                  IN  b \in NanWords \/ b \in InfWords \/ IsDecimalText(b)

FloatValue(s) ==
    LET t == Strip(s)
        b == Unsigned(t)
        dot == IF DotsOf(b) = {} THEN Len(b) + 1 ELSE CHOOSE k \in DotsOf(b) : TRUE
        ip == SubSeq(b, 1, dot - 1)
        fp == SubSeq(b, dot + 1, Len(b))
    IN  IF b \in NanWords THEN NaN
        ELSE IF b \in InfWords THEN (IF IsNegText(t) THEN NegInf ELSE Inf)
        ELSE FNorm(IsNegText(t), NTrim(NFromStr(ip \o fp)), Len(fp))

(***************************************************************************)
(* Formatting.  A finite value is rounded on its exact decimal value, a    *)
(* tie going to the even digit; Python rounds the exact value of the       *)
(* double the same way, so the two agree wherever the double is exact,     *)
(* and may differ on a tie that the double does not represent exactly.     *)
(***************************************************************************)
\* the digits of |a| rounded to d decimal places, as a natural number of 10^-d
RoundedDigits(a, d) ==
    IF a.e <= d THEN Scaled(a, d)
    ELSE LET drop == a.e - d
             full == Zeros(drop - Len(a.m)) \o a.m
             q == NTrim(SubSeq(full, 1, Len(full) - drop))
             r == SubSeq(full, Len(full) - drop + 1, Len(full))
             half == <<5>> \o Zeros(drop - 1)
             odd == q # <<>> /\ Last(q) % 2 = 1
             up == NLexLess(half, r) \/ (r = half /\ odd)
         IN  IF up THEN NAdd(q, <<1>>) ELSE q

\* digits with a decimal point d places from the right
PointText(ds, d) ==
    LET full == Zeros(d + 1 - Len(ds)) \o ds
    IN  NStr(SubSeq(full, 1, Len(full) - d))
          \o (IF d > 0 THEN "." \o NStr(SubSeq(full, Len(full) - d + 1, Len(full))) ELSE "")

SpecialText(a) == IF a.k = "nan" THEN "nan" ELSE IF a.neg THEN "-inf" ELSE "inf"

\* f"{a:.<d>f}"
FixedText(a, d) ==
    IF a.k # "fin" THEN SpecialText(a)
    ELSE (IF a.neg THEN "-" ELSE "") \o PointText(RoundedDigits(a, d), d)

RECURSIVE GroupDigits(_)
GroupDigits(s) == IF Len(s) <= 3 THEN s
                  ELSE GroupDigits(SubSeq(s, 1, Len(s) - 3)) \o "," \o SubSeq(s, Len(s) - 2, Len(s))

\* f"{a:,.<d>f}": the integer part grouped in thousands
GroupedText(a, d) ==
    IF a.k # "fin" THEN SpecialText(a)
    ELSE LET t == PointText(RoundedDigits(a, d), d)
             w == Len(t) - d - 1
         IN  (IF a.neg THEN "-" ELSE "") \o GroupDigits(SubSeq(t, 1, w)) \o SubSeq(t, w + 1, Len(t))

\* f"{a}" (repr of a float), for zero and for 1e-4 <= |a| < 1e16, where
\* Python uses no exponent
ReprText(a) ==
    IF a.k # "fin" THEN SpecialText(a)
    ELSE (IF a.neg THEN "-" ELSE "") \o PointText(Scaled(a, MaxOf(a.e, 1)), MaxOf(a.e, 1))

\* int(a) raises ValueError for nan and OverflowError for an infinity
IntRaises(a) == a.k # "fin"

\* str(int(a)): the fractional part is cut off
TruncText(a) == (IF a.neg /\ Len(a.m) > a.e THEN "-" ELSE "")
                   \o NText(SubSeq(a.m, 1, Len(a.m) - a.e))

Ellipsis == "~"

(***************************************************************************)
(* Program constants                                                       *)
(***************************************************************************)
DaysLow == 1
DaysHigh == 365
TariffLow == 0
CountLow == 1
CountHigh == 100
WattsLow == 1
HoursLow == 0
HoursHigh == 24
QtyLow == 1
QtyHigh == 1000

\* the console column widths w1 .. w5
NameWidth == 20
WattsWidth == 7
HoursWidth == 7
QtyWidth == 5
KwhWidth == 10

\* the thresholds of the four tips
TipTotalKwh == 15
TipTopHours == 8
TipTopWatts == 200
TipTariff == 9
TipLowWatts == 80
TipLongHours == 10

ReportPath == "energy_report.txt"

(***************************************************************************)
(* Bounds of the model                                                     *)
(***************************************************************************)
\* the largest device count the user of the "multi" script asks for
MaxDevices == 2
\* the number of runs in the same working directory (SpecRuns)
MaxRuns == 2

(***************************************************************************)
(* The lines the user may type at each prompt.  A script is a family of    *)
(* users: "single" tries every class of line at every prompt and enters    *)
(* one device, "multi" enters up to MaxDevices devices, "rerun" is the     *)
(* small family used when the program is run several times.                *)
(***************************************************************************)
CountLines == {ToString(k) : k \in 0..MaxDevices}

Lines(sc, prompt) ==
    IF sc = "single" THEN
        CASE prompt = "days"   -> {"", "abc", "0", "1", " 30 ", "365", "366", "2.5"}
          [] prompt = "tariff" -> {"", "x", "-1", "0", "8.125", "9", "9.5", "nan", "inf"}
          [] prompt = "count"  -> {"", "0", "1", "101", "1.0"}
          [] prompt = "name"   -> {" "}
          [] prompt = "watts"  -> {"", "abc", "0.5", "1", "75.5", "80", "200", "250",
                                   "625", "10000000", "nan", "inf"}
          [] prompt = "hours"  -> {"", "-1", "0", "8", "9.25", "10", "11", "24", "24.01",
                                   "nan", "inf"}
          [] prompt = "qty"    -> {"", "0", "1", "1000", "1001", "2.5", "nan"}
    ELSE IF sc = "multi" THEN
        CASE prompt = "days"   -> {"30"}
          [] prompt = "tariff" -> {"8", "9.5"}
          [] prompt = "count"  -> CountLines \cup {"101"}
          [] prompt = "name"   -> {"", "Fan"}
          [] prompt = "watts"  -> {"75.5", "250"}
          [] prompt = "hours"  -> {"8", "11", "nan"}
          [] prompt = "qty"    -> {"2"}
    ELSE
        CASE prompt = "days"   -> {"30"}
          [] prompt = "tariff" -> {"8", "8.125"}
          [] prompt = "count"  -> {"0", "1", "2"}
          [] prompt = "name"   -> {"Fan"}
          [] prompt = "watts"  -> {"75.5", "abc"}
          [] prompt = "hours"  -> {"11"}
          [] prompt = "qty"    -> {"1", "2"}

(***************************************************************************)
(* ask_int and ask_float: one pass of the while loop on one input line.    *)
(* The result says whether the pass returned (ok) and with what value, and *)
(* holds the lines the pass printed.                                       *)
(***************************************************************************)
None == [some |-> FALSE, v |-> 0]
Some(x) == [some |-> TRUE, v |-> x]

Rejected(msg) == [ok |-> FALSE, out |-> <<msg>>]
Returned(v) == [ok |-> TRUE, v |-> v, out |-> <<>>]

\* ask_int with the diagnostic of the upper bound written with the sign of the
\* lower one
AskIntOnceSameSign(line, low, high) ==
    LET t == Strip(line)
    IN  IF t = "" THEN Rejected("  enter a value")
        ELSE IF ~IsIntText(t) THEN Rejected("  integers only")
        ELSE LET v == IntValue(t)
             IN  IF low.some /\ v < low.v THEN Rejected("  must be >= " \o ToString(low.v))
                 ELSE IF high.some /\ v > high.v
                      THEN Rejected("  must be >= " \o ToString(high.v))
                 ELSE Returned(v)

\* ask_int without the test of the lower bound
AskIntOnceNoLow(line, low, high) ==
    LET t == Strip(line)
    IN  IF t = "" THEN Rejected("  enter a value")
        ELSE IF ~IsIntText(t) THEN Rejected("  integers only")
        ELSE LET v == IntValue(t)
             IN  IF high.some /\ v > high.v
                 THEN Rejected("  must be <= " \o ToString(high.v))
                 ELSE Returned(v)

AskIntOnce(line, low, high) ==
    LET t == Strip(line)
    IN  IF t = "" THEN Rejected("  enter a value")
        ELSE IF ~IsIntText(t) THEN Rejected("  integers only")
        ELSE LET v == IntValue(t)
             IN  IF low.some /\ v < low.v THEN Rejected("  must be >= " \o ToString(low.v))
                 ELSE IF high.some /\ v > high.v
                      THEN Rejected("  must be <= " \o ToString(high.v))
                 ELSE Returned(v)

AskFloatOnce(line, low, high) ==
    LET t == Strip(line)
    IN  IF t = "" THEN Rejected("  enter a value")
        ELSE IF ~IsFloatText(t) THEN Rejected("  numbers only")
        ELSE LET v == FloatValue(t)
             IN  IF low.some /\ FLt(v, FInt(low.v))
                 THEN Rejected("  must be >= " \o ToString(low.v))
                 ELSE IF high.some /\ FGt(v, FInt(high.v))
                      THEN Rejected("  must be <= " \o ToString(high.v))
                 ELSE Returned(v)

(***************************************************************************)
(* collect_devices and summary_and_report                                  *)
(***************************************************************************)
\* kwh_day left in watt-hours
KwhDayNoDivision(w, h, q) == FMul(FMul(w, h), FInt(q))

\* kwh_day = (watts * hours * qty) / 1000.0
KwhDay(w, h, q) == FDiv1000(FMul(FMul(w, h), FInt(q)))

Device(nm, w, h, q) ==
    [name |-> nm, watts |-> w, hours |-> h, qty |-> q, kwh_day |-> KwhDay(w, h, q)]

\* input(...).strip() or f"Device{i}"
NameOf(line, k) == IF Strip(line) = "" THEN "Device" \o ToString(k) ELSE Strip(line)

\* sum(d["kwh_day"] for d in devices): from 0, left to right
RECURSIVE SumKwh(_)
SumKwh(ds) == IF ds = <<>> THEN FInt(0) ELSE FAdd(SumKwh(Front(ds)), Last(ds).kwh_day)

\* max(devices, key=...): the index of the element max returns; a later
\* element replaces the current one only when its key is greater
RECURSIVE TopIndex(_)
TopIndex(ds) ==
    IF Len(ds) = 1 THEN 1
    ELSE LET b == TopIndex(Front(ds))
         IN  IF FGt(Last(ds).kwh_day, ds[b].kwh_day) THEN Len(ds) ELSE b

Totals(ds, dys, trf) ==
    LET total == SumKwh(ds)
        month == FMul(total, FInt(dys))
    IN  [total_kwh_day |-> total, total_kwh_month |-> month,
         est_bill |-> FMul(month, trf), top |-> TopIndex(ds)]

\* pad cutting to the width without the ellipsis
padNoEllipsis(text, width) ==
    IF Len(text) > width THEN SubSeq(text, 1, width) ELSE LJust(text, width)

\* pad(text, width)
pad(text, width) ==
    IF Len(text) > width THEN SubSeq(text, 1, width - 1) \o Ellipsis
    ELSE LJust(text, width)

\* the arguments of the print call of one table row
ConsoleRow(d) ==
    << pad(d.name, NameWidth), "|", pad(TruncText(d.watts), WattsWidth), "|",
       pad(FixedText(d.hours, 1), HoursWidth), "|", pad(ToString(d.qty), QtyWidth), "|",
       pad(FixedText(d.kwh_day, 3), KwhWidth) >>

\* the parts of the f-string of one row of the file
FileRow(d) ==
    << LJust(d.name, NameWidth), " ", RJust(TruncText(d.watts), WattsWidth), " ",
       RJust(FixedText(d.hours, 1), HoursWidth), " ", RJust(ToString(d.qty), QtyWidth), " ",
       RJust(FixedText(d.kwh_day, 3), KwhWidth) >>

\* the first device whose row cannot be printed (int(watts) raises), or 0
RECURSIVE FirstRaising(_)
FirstRaising(ds) ==
    IF ds = <<>> THEN 0
    ELSE LET f == FirstRaising(Front(ds))
         IN  IF f # 0 THEN f ELSE IF IntRaises(Last(ds).watts) THEN Len(ds) ELSE 0

ConsoleRows(ds) == [k \in 1..Len(ds) |-> ConsoleRow(ds[k])]
FileRows(ds) == [k \in 1..Len(ds) |-> FileRow(ds[k])]

\* the four lines of the summary block ("Rs" stands for the rupee sign;
\* the colour codes are left out)
SummaryLines(ds, dys, trf, rp) ==
    << <<"  Total daily consumption      : ", FixedText(rp.total_kwh_day, 3), " kWh">>,
       <<"  Billing cycle consumption    : ", FixedText(rp.total_kwh_month, 3),
         " kWh (days=", ToString(dys), ")">>,
       <<"  Estimated bill @ Rs", FixedText(trf, 2), "/kWh : Rs", GroupedText(rp.est_bill, 2)>>,
       <<"  Highest daily consumer       : ", ds[rp.top].name, " (",
         FixedText(ds[rp.top].kwh_day, 3), " kWh/day)">> >>

Tip1 == "  * Consider staggering heavy loads to reduce peak usage."
Tip2(nm) == "  * Try reducing " \o nm \o " hours or enable energy-saver settings."
Tip3 == "  * Tariff is relatively high - small savings on daily kWh translate to meaningful Rs reductions."
Tip4 == "  * Long-running low-watt devices add up - audit always-on equipment."

AnyLowWattLongHours(ds) ==
    \E k \in 1..Len(ds) : FLt(ds[k].watts, FInt(TipLowWatts)) /\ FGt(ds[k].hours, FInt(TipLongHours))

\* the tips as an if / elif chain: the first rule that fires hides the others
TipLinesElif(ds, trf, rp) ==
    IF FGt(rp.total_kwh_day, FInt(TipTotalKwh)) THEN <<Tip1>>
    ELSE IF FGt(ds[rp.top].hours, FInt(TipTopHours)) /\ FGt(ds[rp.top].watts, FInt(TipTopWatts))
    THEN <<Tip2(ds[rp.top].name)>>
    ELSE IF FGt(trf, FInt(TipTariff)) THEN <<Tip3>>
    ELSE IF AnyLowWattLongHours(ds) THEN <<Tip4>>
    ELSE <<>>

\* the lines printed after the "Tips:" heading
TipLines(ds, trf, rp) ==
    (IF FGt(rp.total_kwh_day, FInt(TipTotalKwh)) THEN <<Tip1>> ELSE <<>>)
    \o (IF FGt(ds[rp.top].hours, FInt(TipTopHours)) /\ FGt(ds[rp.top].watts, FInt(TipTopWatts))
        THEN <<Tip2(ds[rp.top].name)>> ELSE <<>>)
    \o (IF FGt(trf, FInt(TipTariff)) THEN <<Tip3>> ELSE <<>>)
    \o (IF AnyLowWattLongHours(ds) THEN <<Tip4>> ELSE <<>>)

\* the lines of the report file; a line is the sequence of the parts of its
\* f-string, and the stamp is the clock reading
ReportLines(ds, dys, trf, rp, stamp) ==
    << <<"Energy Analyzer Report">>,
       <<"Generated: ", ToString(stamp)>>,
       <<"">>,
       <<"Billing days: ", ToString(dys)>>,
       <<"Tariff (Rs/kWh): ", ReprText(trf)>>,
       <<"">>,
       <<"Per-Device Daily Usage:">>,
       <<LJust("Device", NameWidth), " ", RJust("Watts", WattsWidth), " ",
         RJust("Hours", HoursWidth), " ", RJust("Qty", QtyWidth), " ",
         RJust("kWh/day", KwhWidth)>> >>
    \o FileRows(ds)
    \o << <<"">>,
          <<"Total daily kWh: ", FixedText(rp.total_kwh_day, 3)>>,
          <<"Monthly kWh   : ", FixedText(rp.total_kwh_month, 3)>>,
          <<"Est. bill (Rs) : ", FixedText(rp.est_bill, 2)>>,
          <<"Top device    : ", ds[rp.top].name, " (", FixedText(ds[rp.top].kwh_day, 3),
            " kWh/day)">> >>

\* the file opened with "a" instead of "w"
WriteFileAppend(fl, path, lines) ==
    [p \in DOMAIN fl \cup {path} |->
        IF p = path THEN (IF path \in DOMAIN fl THEN fl[path] ELSE <<>>) \o lines ELSE fl[p]]

\* open(path, "w") followed by f.write(text)
WriteFile(files, path, lines) ==
    [p \in DOMAIN files \cup {path} |-> IF p = path THEN lines ELSE files[p]]

\* the ways the write of the report may end: done, open() raised (the file is
\* untouched), write() raised (the file was truncated by open and is empty)
IoOutcomes == {"ok", "open_failed", "write_failed"}

(***************************************************************************)
(* State                                                                   *)
(***************************************************************************)
VARIABLES
    script,     \* the family of lines the user types from
    pc,         \* where main is: the prompt it waits at, "report", or how it ended
    s,          \* ask_int / ask_float / collect_devices: the line read last, stripped
    diag,       \* the lines printed by the last pass of a prompt loop
    days,       \* main: days
    tariff,     \* main: tariff
    n,          \* main: n
    i,          \* collect_devices: i
    name,       \* collect_devices: name
    watts,      \* collect_devices: watts
    hours,      \* collect_devices: hours
    devices,    \* collect_devices: devices
    report,     \* summary_and_report: total_kwh_day, total_kwh_month, est_bill, top
    console,    \* what main printed after the prompts
    err,        \* the exception that ended the run, "" if none
    files,      \* the working directory: path -> lines
    clock,      \* the wall clock, in seconds
    run,        \* the number of the run
    writes      \* how many times a report was written in full to the directory

vars == <<script, pc, s, diag, days, tariff, n, i, name, watts, hours, devices,
          report, console, err, files, clock, run, writes>>

NoReport == [total_kwh_day |-> FInt(0), total_kwh_month |-> FInt(0),
             est_bill |-> FInt(0), top |-> 0]

NoConsole == [rows |-> <<>>, summary |-> <<>>, tips_heading |-> FALSE, tips |-> <<>>,
              saved |-> FALSE, empty_exit |-> FALSE]

\* the state of a process that has just started main; a variable that the
\* program has not assigned yet holds 0 or the empty value of its type
Fresh ==
    /\ pc = "days"
    /\ s = ""
    /\ diag = <<>>
    /\ days = 0
    /\ tariff = FInt(0)
    /\ n = 0
    /\ i = 0
    /\ name = ""
    /\ watts = FInt(0)
    /\ hours = FInt(0)
    /\ devices = <<>>
    /\ report = NoReport
    /\ console = NoConsole
    /\ err = ""

Init ==
    /\ script \in {"single", "multi"}
    /\ Fresh
    /\ files = <<>>
    /\ clock = 0
    /\ run = 1
    /\ writes = 0

InitRuns ==
    /\ script = "rerun"
    /\ Fresh
    /\ files = <<>>
    /\ clock = 0
    /\ run = 1
    /\ writes = 0

(***************************************************************************)
(* main: the three prompts                                                 *)
(***************************************************************************)
\* days = ask_int("Billing days (typical 30): ", low=1, high=365)
AskDays ==
    /\ pc = "days"
    /\ \E line \in Lines(script, "days") :
         LET r == AskIntOnce(line, Some(DaysLow), Some(DaysHigh))
         IN  /\ s' = Strip(line)
             /\ diag' = r.out
             /\ IF r.ok THEN days' = r.v /\ pc' = "tariff" ELSE UNCHANGED <<days, pc>>
    /\ UNCHANGED <<script, tariff, n, i, name, watts, hours, devices, report, console,
                   err, files, clock, run, writes>>

\* tariff = ask_float("Tariff ...: ", low=0)
AskTariff ==
    /\ pc = "tariff"
    /\ \E line \in Lines(script, "tariff") :
         LET r == AskFloatOnce(line, Some(TariffLow), None)
         IN  /\ s' = Strip(line)
             /\ diag' = r.out
             /\ IF r.ok THEN tariff' = r.v /\ pc' = "count" ELSE UNCHANGED <<tariff, pc>>
    /\ UNCHANGED <<script, days, n, i, name, watts, hours, devices, report, console,
                   err, files, clock, run, writes>>

\* n = ask_int("Number of devices: ", low=1, high=100), then the start of
\* collect_devices(n): devices = [] and the first turn of range(1, n + 1),
\* if it has one
AskCount ==
    /\ pc = "count"
    /\ \E line \in Lines(script, "count") :
         LET r == AskIntOnce(line, Some(CountLow), Some(CountHigh))
         IN  /\ s' = Strip(line)
             /\ diag' = r.out
             /\ IF r.ok
                THEN /\ n' = r.v
                     /\ i' = 1
                     /\ devices' = <<>>
                     /\ pc' = IF 1 <= r.v THEN "name" ELSE "report"
                ELSE UNCHANGED <<n, i, devices, pc>>
    /\ UNCHANGED <<script, days, tariff, name, watts, hours, report, console,
                   err, files, clock, run, writes>>

(***************************************************************************)
(* collect_devices: one turn of the for loop is four prompts               *)
(***************************************************************************)
\* name = input(f"  {i}. Device name: ").strip() or f"Device{i}"
AskName ==
    /\ pc = "name"
    /\ \E line \in Lines(script, "name") :
         /\ s' = Strip(line)
         /\ name' = NameOf(line, i)
    /\ diag' = <<>>
    /\ pc' = "watts"
    /\ UNCHANGED <<script, days, tariff, n, i, watts, hours, devices, report, console,
                   err, files, clock, run, writes>>

\* watts = ask_float("     Watts (W): ", low=1)
AskWatts ==
    /\ pc = "watts"
    /\ \E line \in Lines(script, "watts") :
         LET r == AskFloatOnce(line, Some(WattsLow), None)
         IN  /\ s' = Strip(line)
             /\ diag' = r.out
             /\ IF r.ok THEN watts' = r.v /\ pc' = "hours" ELSE UNCHANGED <<watts, pc>>
    /\ UNCHANGED <<script, days, tariff, n, i, name, hours, devices, report, console,
                   err, files, clock, run, writes>>

\* hours = ask_float("     Hours per day: ", low=0, high=24)
AskHours ==
    /\ pc = "hours"
    /\ \E line \in Lines(script, "hours") :
         LET r == AskFloatOnce(line, Some(HoursLow), Some(HoursHigh))
         IN  /\ s' = Strip(line)
             /\ diag' = r.out
             /\ IF r.ok THEN hours' = r.v /\ pc' = "qty" ELSE UNCHANGED <<hours, pc>>
    /\ UNCHANGED <<script, days, tariff, n, i, name, watts, devices, report, console,
                   err, files, clock, run, writes>>

\* qty = ask_int("     Quantity: ", low=1, high=1000); the device is appended
\* and the loop goes to its next turn or collect_devices returns
AskQty ==
    /\ pc = "qty"
    /\ \E line \in Lines(script, "qty") :
         LET r == AskIntOnce(line, Some(QtyLow), Some(QtyHigh))
         IN  /\ s' = Strip(line)
             /\ diag' = r.out
             /\ IF r.ok
                THEN /\ devices' = Append(devices, Device(name, watts, hours, r.v))
                     /\ i' = i + 1
                     /\ pc' = IF i + 1 <= n THEN "name" ELSE "report"
                ELSE UNCHANGED <<devices, i, pc>>
    /\ UNCHANGED <<script, days, tariff, n, name, watts, hours, report, console,
                   err, files, clock, run, writes>>

(***************************************************************************)
(* main after collect_devices: the guard on an empty list, then            *)
(* summary_and_report(devices, days, tariff)                               *)
(***************************************************************************)
Finish ==
    /\ pc = "report"
    /\ IF devices = <<>>
       THEN \* print("No devices entered; exiting."); return
            /\ pc' = "exit_empty"
            /\ console' = [NoConsole EXCEPT !.empty_exit = TRUE]
            /\ UNCHANGED <<report, err, files, writes>>
       ELSE LET rp == Totals(devices, days, tariff)
                bad == FirstRaising(devices)
            IN  /\ report' = rp
                /\ IF bad # 0
                   THEN \* the rows before the bad one are printed, then int() raises
                        /\ pc' = "raised"
                        /\ err' = IF devices[bad].watts.k = "nan" THEN "ValueError"
                                  ELSE "OverflowError"
                        /\ console' = [NoConsole EXCEPT
                                         !.rows = ConsoleRows(SubSeq(devices, 1, bad - 1))]
                        /\ UNCHANGED <<files, writes>>
                   ELSE \E io \in IoOutcomes :
                        /\ pc' = IF io = "ok" THEN "done" ELSE "raised"
                        /\ err' = IF io = "ok" THEN "" ELSE "OSError"
                        /\ console' = [rows |-> ConsoleRows(devices),
                                       summary |-> SummaryLines(devices, days, tariff, rp),
                                       tips_heading |-> TRUE,
                                       tips |-> TipLines(devices, tariff, rp),
                                       saved |-> (io = "ok"),
                                       empty_exit |-> FALSE]
                        /\ files' = IF io = "ok"
                                    THEN WriteFile(files, ReportPath,
                                                   ReportLines(devices, days, tariff, rp, clock))
                                    ELSE IF io = "write_failed"
                                    THEN WriteFile(files, ReportPath, <<>>)
                                    ELSE files
                        /\ writes' = IF io = "ok" THEN writes + 1 ELSE writes
    /\ UNCHANGED <<script, s, diag, days, tariff, n, i, name, watts, hours, devices,
                   clock, run>>

\* the program is started again in the same working directory, at once or a
\* second later
NewRun ==
    /\ pc \in {"done", "raised", "exit_empty"}
    /\ run < MaxRuns
    /\ run' = run + 1
    /\ \E dt \in {0, 1} : clock' = clock + dt
    /\ pc' = "days"
    /\ s' = ""
    /\ diag' = <<>>
    /\ days' = 0
    /\ tariff' = FInt(0)
    /\ n' = 0
    /\ i' = 0
    /\ name' = ""
    /\ watts' = FInt(0)
    /\ hours' = FInt(0)
    /\ devices' = <<>>
    /\ report' = NoReport
    /\ console' = NoConsole
    /\ err' = ""
    /\ UNCHANGED <<script, files, writes>>

Next ==
    \/ AskDays
    \/ AskTariff
    \/ AskCount
    \/ AskName
    \/ AskWatts
    \/ AskHours
    \/ AskQty
    \/ Finish

NextRuns == Next \/ NewRun

\* one run of the program
Spec == Init /\ [][Next]_vars

\* up to MaxRuns runs in the same working directory
SpecRuns == InitRuns /\ [][NextRuns]_vars

(***************************************************************************)
(* Properties                                                              *)
(***************************************************************************)
Finite(a) == a.k = "fin"

\* summary_and_report has computed its totals
Computed == pc \in {"done", "raised"} /\ devices # <<>>

\* the lines of the report file
FileLines == files[ReportPath]

\* line k of the device table of the file, and where the lines after it are
FileRowAt(k) == FileLines[8 + k]
FileTail(k) == FileLines[9 + Len(devices) + k]

RECURSIVE RemoveCommas(_)
RemoveCommas(t) ==
    IF t = "" THEN ""
    ELSE (IF Char(t, 1) = "," THEN "" ELSE Char(t, 1)) \o RemoveCommas(SubSeq(t, 2, Len(t)))

\* the number a printed text shows
Shown(t) == FloatValue(RemoveCommas(t))

\* C1: when summary_and_report is called, days is an integer in [1, 365],
\* tariff is a real number >= 0, and every device has watts a real number
\* >= 1, hours a real number in [0, 24] and qty an integer in [1, 1000].
C1_CollectedWithinBounds ==
    (pc = "report" /\ devices # <<>>) =>
        /\ days \in 1..365
        /\ Finite(tariff) /\ FGe(tariff, FInt(0))
        /\ \A k \in 1..Len(devices) :
             /\ Finite(devices[k].watts) /\ FGe(devices[k].watts, FInt(1))
             /\ Finite(devices[k].hours)
             /\ FGe(devices[k].hours, FInt(0)) /\ FLe(devices[k].hours, FInt(24))
             /\ devices[k].qty \in 1..1000

\* the sum of the daily kWh taken from the last device to the first
RECURSIVE KwhFromLast(_)
KwhFromLast(ds) ==
    IF ds = <<>> THEN FInt(0) ELSE FAdd(Head(ds).kwh_day, KwhFromLast(Tail(ds)))

\* C2: each device's daily_kwh is watts * hours * qty / 1000; the total is
\* the sum of the devices' daily_kwh whatever the order of the addition; the
\* cycle total is the daily total times days; the bill is the daily total
\* times days times tariff.
C2_ReportFormulas ==
    /\ \A k \in 1..Len(devices) :
         devices[k].kwh_day
           = FDiv1000(FMul(FMul(devices[k].watts, devices[k].hours), FInt(devices[k].qty)))
    /\ Computed =>
         /\ report.total_kwh_day = KwhFromLast(devices)
         /\ report.total_kwh_month = FMul(report.total_kwh_day, FInt(days))
         /\ report.est_bill = FMul(FMul(report.total_kwh_day, FInt(days)), tariff)

C2_Witness ==
    /\ pc = "done"
    /\ Len(devices) >= 2
    /\ devices[1].kwh_day # devices[2].kwh_day
    /\ Finite(report.est_bill) /\ ~IsZero(report.est_bill)
    /\ FGt(report.total_kwh_day, devices[1].kwh_day)

\* the prompts answered through ask_int and through ask_float, with their bounds
IntPrompts == {"days", "count", "qty"}
FloatPrompts == {"tariff", "watts", "hours"}

LowOf(p) == CASE p = "days" -> 1 [] p = "tariff" -> 0 [] p = "count" -> 1
              [] p = "watts" -> 1 [] p = "hours" -> 0 [] p = "qty" -> 1

HasHigh(p) == p \in {"days", "count", "hours", "qty"}
HighOf(p) == CASE p = "days" -> 365 [] p = "count" -> 100 [] p = "hours" -> 24
               [] p = "qty" -> 1000

\* the class of a stripped line at a prompt
ClassOf(p, t) ==
    IF t = "" THEN "empty"
    ELSE IF p \in IntPrompts
    THEN IF ~IsIntText(t) THEN "type"
         ELSE IF IntValue(t) < LowOf(p) THEN "below"
         ELSE IF IntValue(t) > HighOf(p) THEN "above"
         ELSE "accepted"
    ELSE IF ~IsFloatText(t) THEN "type"
         ELSE IF FLt(FloatValue(t), FInt(LowOf(p))) THEN "below"
         ELSE IF HasHigh(p) /\ FGt(FloatValue(t), FInt(HighOf(p))) THEN "above"
         ELSE "accepted"

\* the diagnostic of a class at a prompt
MessageOf(p, c) ==
    CASE c = "empty" -> "  enter a value"
      [] c = "type"  -> IF p \in IntPrompts THEN "  integers only" ELSE "  numbers only"
      [] c = "below" -> "  must be >= " \o ToString(LowOf(p))
      [] c = "above" -> "  must be <= " \o ToString(HighOf(p))

\* the classes of rejection a prompt has
ClassesOf(p) == {"empty", "type", "below"} \cup (IF HasHigh(p) THEN {"above"} ELSE {})

\* C3: in ask_int and ask_float a rejected attempt prints exactly one line,
\* the one of its class (empty, wrong type, below the minimum, above the
\* maximum), the four being different; the prompt stays the same and no
\* collected value changes.  An accepted attempt prints nothing.
C3_RejectionStep ==
    [][ (pc \in IntPrompts \cup FloatPrompts) =>
          /\ diag' = IF ClassOf(pc, s') = "accepted" THEN <<>>
                     ELSE <<MessageOf(pc, ClassOf(pc, s'))>>
          /\ Cardinality({MessageOf(pc, c) : c \in ClassesOf(pc)}) = Cardinality(ClassesOf(pc))
          /\ diag' # <<>> =>
               /\ pc' = pc
               /\ UNCHANGED <<days, tariff, n, i, name, watts, hours, devices, report,
                              console, err, files>>
      ]_vars

C3_Witness ==
    /\ pc = "qty"
    /\ s = "1001"
    /\ diag = <<"  must be <= 1000">>
    /\ days = 365
    /\ n = 1

\* C4: the top device has daily_kwh >= the daily_kwh of every device, and is
\* the first of the devices that reach the maximum.
C4_TopIsFirstMaximum ==
    Computed =>
        /\ \A k \in 1..Len(devices) :
             FGe(devices[report.top].kwh_day, devices[k].kwh_day)
        /\ \A k \in 1..(report.top - 1) :
             devices[k].kwh_day # devices[report.top].kwh_day

\* the tips whose condition holds, in the order of the rules
C5_Expected ==
    LET top == devices[report.top]
        r1 == FGt(report.total_kwh_day, FInt(15))
        r2 == FGt(top.hours, FInt(8)) /\ FGt(top.watts, FInt(200))
        r3 == FGt(tariff, FInt(9))
        r4 == \E k \in 1..Len(devices) :
                 FLt(devices[k].watts, FInt(80)) /\ FGt(devices[k].hours, FInt(10))
    IN  (IF r1 THEN <<Tip1>> ELSE <<>>) \o (IF r2 THEN <<Tip2(top.name)>> ELSE <<>>)
        \o (IF r3 THEN <<Tip3>> ELSE <<>>) \o (IF r4 THEN <<Tip4>> ELSE <<>>)

\* C5: under the "Tips:" heading, which every report prints, the lines are
\* exactly the rules that hold, once each, in the order 1..4: rule 1 iff
\* total > 15, rule 2 iff top.hours > 8 and top.watts > 200, rule 3 iff
\* tariff > 9, rule 4 iff some device has watts < 80 and hours > 10.
C5_TipsAreTheRulesThatHold ==
    /\ pc = "done" => console.tips_heading
    /\ console.tips_heading => console.tips = C5_Expected
    /\ ~console.tips_heading => console.tips = <<>>

\* rules 2, 3 and 4 fire together, rule 4 on a device that is not the top one
C5_Witness ==
    /\ pc = "done"
    /\ console.tips = <<Tip2(devices[report.top].name), Tip3, Tip4>>
    /\ ~(FLt(devices[report.top].watts, FInt(80)))

\* C6: the numbers of the summary block (total daily kWh, cycle kWh, bill,
\* top device's daily kWh, tariff) are the numbers the file shows.
C6_FileMirrorsSummary ==
    pc = "done" =>
        /\ Shown(console.summary[1][2]) = Shown(FileTail(1)[2])
        /\ Shown(console.summary[2][2]) = Shown(FileTail(2)[2])
        /\ Shown(console.summary[3][4]) = Shown(FileTail(3)[2])
        /\ Shown(console.summary[4][4]) = Shown(FileTail(4)[4])
        /\ Shown(console.summary[3][2]) = Shown(FileLines[5][2])

\* the numeric columns of a table row (the positions of the cells in it)
\* and the width of each on the console
NumericCells == {3, 5, 7, 9}
WidthOfCell(c) == CASE c = 3 -> 7 [] c = 5 -> 7 [] c = 7 -> 5 [] c = 9 -> 10

\* the number of characters after the decimal point
DecimalsOf(t) == IF DotsOf(t) = {} THEN 0 ELSE Len(t) - (CHOOSE k \in DotsOf(t) : TRUE)

\* C7 as stated: every numeric cell of a device's row shows the same text on
\* the console and in the file, also when it is wider than the column.
C7_RowsShowSameText ==
    pc = "done" =>
        \A k \in 1..Len(devices) : \A c \in NumericCells :
            Strip(console.rows[k][c]) = Strip(FileRowAt(k)[c])

\* C7 as amended: a numeric cell shows the same text on both surfaces when
\* the text fits the console column; a wider text is cut on the console to
\* width - 1 characters and the ellipsis, and is whole in the file.  The file
\* shows watts as an integer with the fraction cut off, hours to 1 decimal,
\* the quantity as it is and kWh/day to 3 decimals.
C7_RowsShowSameTextWhenFits ==
    pc = "done" =>
        \A k \in 1..Len(devices) :
            /\ \A c \in NumericCells :
                 LET ft == Strip(FileRowAt(k)[c])
                 IN  IF Len(ft) <= WidthOfCell(c)
                     THEN Strip(console.rows[k][c]) = ft
                     ELSE console.rows[k][c] = SubSeq(ft, 1, WidthOfCell(c) - 1) \o Ellipsis
            /\ LET wt == Strip(FileRowAt(k)[3])
               IN  /\ AllDigits(wt)
                   /\ FLe(FloatValue(wt), devices[k].watts)
                   /\ FLt(devices[k].watts, FAdd(FloatValue(wt), FInt(1)))
            /\ Finite(devices[k].hours) => DecimalsOf(Strip(FileRowAt(k)[5])) = 1
            /\ Strip(FileRowAt(k)[7]) = ToString(devices[k].qty)
            /\ Finite(devices[k].kwh_day) => DecimalsOf(Strip(FileRowAt(k)[9])) = 3

\* a report with watts and kWh/day wider than their columns
C7_Witness ==
    /\ pc = "done"
    /\ \E k \in 1..Len(devices) :
         /\ Len(Strip(FileRowAt(k)[3])) > 7
         /\ Len(Strip(FileRowAt(k)[9])) > 10

\* C8: once every prompt has returned, the run ends normally unless the
\* write of the file fails.
C8_NoErrorPastInput ==
    pc = "raised" => err = "OSError"

\* C9: after a completed run the directory holds the report of that run and
\* nothing else: 13 lines and one per device, stamped by this run, and no
\* other file.
C9_FileIsLatestReport ==
    /\ DOMAIN files \subseteq {ReportPath}
    /\ pc = "done" =>
         /\ ReportPath \in DOMAIN files
         /\ Len(FileLines) = 13 + Len(devices)
         /\ FileLines = ReportLines(devices, days, tariff, report, clock)

\* a second full write in the same directory
C9_Witness ==
    /\ pc = "done"
    /\ writes >= 2
    /\ run >= 2

\* C10: collect_devices(n) returns n records, record k built in turn k from
\* the answers of that turn, equal names kept apart; main never takes the
\* "No devices entered" return and never reports on an empty list.
C10_CollectsExactlyN ==
    /\ pc # "exit_empty"
    /\ ~console.empty_exit
    /\ pc \in {"name", "watts", "hours", "qty"} => (Len(devices) = i - 1 /\ i <= n)
    /\ pc \in {"report", "done", "raised"} => (Len(devices) = n /\ n \in 1..100)
    /\ (pc \in {"name", "report", "done", "raised"} /\ devices # <<>>) =>
         LET d == devices[Len(devices)]
         IN  d.name = name /\ d.watts = watts /\ d.hours = hours
    /\ \A k \in 1..Len(devices) :
         devices[k].name \in {"Fan", "Device" \o ToString(k)}

\* two devices of the same name, kept as two records in the order typed
C10_Witness ==
    /\ pc = "done"
    /\ Len(devices) = 2
    /\ devices[1].name = devices[2].name
    /\ devices[1].watts # devices[2].watts

=============================================================================
